---- MODULE Spec2Model ----
(***************************************************************************)
(* Media worker: the queue-consumption loop (MediaWorker.run), the per-job *)
(* pipeline (MediaWorker.process_task) with its collaborators (queue and   *)
(* status store in Redis, object store in MinIO, ffmpeg and mediainfo as   *)
(* external tools) and the cleanup of the staged files.                    *)
(***************************************************************************)
EXTENDS Integers, Sequences, FiniteSets, TLC

VARIABLES
    queue,       \* the Redis list REDIS_QUEUE_NAME: job descriptors, head first
    store,       \* the MinIO bucket: the set of object names it holds
    disk,        \* the local file system: the set of paths that exist
    sink,        \* the Redis hashes: key -> (field -> value)
    running,     \* running[w]: MediaWorker.running of worker w
    rpc,         \* rpc[w]: position of worker w in run()
    ppc,         \* ppc[w]: position of worker w in process_task()
    task,        \* task[w]: the descriptor worker w pulled last
    temp_files,  \* temp_files[w]: the local list temp_files of process_task
    loc,         \* loc[w]: the other locals of process_task
    calls,       \* calls[w]: the collaborator calls made by the current process_task
    hist         \* hist[w]: what the logger of worker w has recorded of the loop

vars == <<queue, store, disk, sink, running, rpc, ppc, task, temp_files, loc, calls, hist>>

----------------------------------------------------------------------------
(* Bounds of the model *)

\* the number of descriptors the queue holds at the start
MaxJobs == 2
\* the largest number of segments one ffmpeg run writes
MaxSegs == 1
\* the largest number of deletions that fail in one cleanup
MaxDeleteFailures == 1
\* the largest number of paths in a list handed to cleanup_temp_files directly
MaxTracked == 3
\* the requested thumbnail widths are 1..MaxWidth
MaxWidth == 4
\* the sides of a source frame are 1..MaxFrameSide
MaxFrameSide == 4

Workers == {"w1"}

----------------------------------------------------------------------------
(* Job descriptors: the JSON texts found in the queue *)

SourceObject == "videos/a.mp4"
AbsentObject == "videos/none.mp4"

JobOk ==
    [id |-> "t1", source_path |-> SourceObject, thumbnail_time |-> "00:00:05",
     quality |-> "720p", output_prefix |-> "out1"]

\* a JSON value as json.loads returns it
Obj(members) == [json |-> "object", members |-> members]

Descriptors ==
    { Obj(JobOk),
      Obj([JobOk EXCEPT !.quality = "4k"]),
      Obj([JobOk EXCEPT !.source_path = AbsentObject]),
      Obj([source_path |-> SourceObject, thumbnail_time |-> "00:00:05",
           quality |-> "720p"]),
      Obj(<< >>),
      [json |-> "array", members |-> << >>] }

\* Python's truth value of a parsed descriptor: an empty dict is falsy
Truthy(d) == d.json = "array" \/ DOMAIN d.members # {}

HasKey(t, k) == k \in DOMAIN t.members

\* task.get('id', 'unknown')
TaskId(t) == IF HasKey(t, "id") THEN t.members.id ELSE "unknown"

----------------------------------------------------------------------------
(* Local paths *)

TempDir == "/var/lib/media-worker/tmp"

File(dir, name, ext) == [dir |-> dir, name |-> name, ext |-> ext]

\* os.path.join(self.temp_dir, f"input_{task_id}.mp4")
InputPath(task_id) == File(TempDir, "input_" \o task_id, ".mp4")

\* timestamp.replace(':', '-')
TimestampClean(ts) == CASE ts = "00:00:05" -> "00-00-05"
                         [] OTHER -> ts

\* str(video_dir / f"{video_name}_thumb_{timestamp_clean}.jpg")
ThumbPath(video_path, ts) ==
    File(video_path.dir, video_path.name \o "_thumb_" \o TimestampClean(ts), ".jpg")

\* str(video_dir / f"{video_name}_hls_{quality}")
HlsDir(video_path, quality) ==
    File(video_path.dir, video_path.name \o "_hls_" \o quality, "")

\* the full name of a directory, as the dir component of the files in it
DirName(d) == d.dir \o "/" \o d.name

MasterPlaylist(output_dir) == File(DirName(output_dir), "master", ".m3u8")

SegmentName(n) == "master" \o ToString(n)

Segment(output_dir, n) == File(DirName(output_dir), SegmentName(n), ".ts")

\* os.listdir(dirname), as a set
ListDir(dirname, fs) == {p \in fs : p.dir = dirname}

\* (variant) the filter keeps the segments only
HlsFilterSegmentsOnly(files) == {p \in files : p.ext = ".ts"}

\* the f.endswith('.ts') or f.endswith('.m3u8') filter of process_task
HlsFilter(files) == {p \in files : p.ext = ".ts" \/ p.ext = ".m3u8"}

\* all the orders in which a listing can return a set of names
Orders(S) == {s \in [1..Cardinality(S) -> S] : \A x \in S : \E i \in DOMAIN s : s[i] = x}

Range(s) == {s[i] : i \in DOMAIN s}

----------------------------------------------------------------------------
(* Object names and URLs *)

\* f"{task['output_prefix']}_thumbnail.jpg"
ThumbnailName(prefix) == <<prefix, "_thumbnail.jpg">>

\* f"{task['output_prefix']}_hls/{f}"
HlsObjectName(prefix, f) == <<prefix, "_hls/", f.name \o f.ext>>

\* f"http://{MINIO_ENDPOINT}/{MINIO_BUCKET}/{object_name}"
Url(object_name) == <<"http://", "minio:9000", "/", "media", "/">> \o object_name

\* f"task:{task_id}"
SinkKey(task_id) == "task:" \o task_id

----------------------------------------------------------------------------
(* Initial state: the worker is constructed, the queue holds some jobs *)

NoTask == [json |-> "null", members |-> << >>]

NoFile == File("", "", "")

NoExc == [raised |-> FALSE, text |-> << >>]

\* the locals of process_task before any stage has run (written is not a
\* local: it is the number of segments that the ffmpeg run of this job wrote)
NewLocals(t) ==
    [task_id |-> TaskId(t), video_path |-> NoFile, thumbnail_path |-> NoFile,
     hls_dir |-> "", listing |-> << >>, segments_count |-> 0, written |-> 0,
     metadata |-> "none", thumbnail_url |-> << >>, hls_files |-> << >>,
     hls_urls |-> << >>,
     exc |-> NoExc, ret |-> "none"]

NoLocals == NewLocals(NoTask)

\* pulled: descriptors popped; got: jobs handed to process_task; done: jobs
\* process_task is over with; sig: what the first signal interrupted ("job":
\* process_task, "poll": the queue pull, "idle": the rest of the loop);
\* pulledAfterSig: descriptors popped while the flag was already set
NoHist ==
    [pulled |-> 0, got |-> 0, done |-> 0, sig |-> "none", pulledAfterSig |-> 0]

QueueContents == UNION {[1..n -> Descriptors] : n \in 0..MaxJobs}

Init ==
    /\ queue \in QueueContents
    /\ store = {<<SourceObject>>}
    /\ disk = {}
    /\ sink = << >>
    /\ running = [w \in Workers |-> TRUE]
    /\ rpc = [w \in Workers |-> "while"]
    /\ ppc = [w \in Workers |-> "idle"]
    /\ task = [w \in Workers |-> NoTask]
    /\ temp_files = [w \in Workers |-> << >>]
    /\ loc = [w \in Workers |-> NoLocals]
    /\ calls = [w \in Workers |-> << >>]
    /\ hist = [w \in Workers |-> NoHist]

----------------------------------------------------------------------------
(* MediaWorker.handle_shutdown and MediaWorker.run *)

\* (variant) the handler ends the process at once: sys.exit in the handler
HandleShutdownExits(w) ==
    /\ rpc[w] # "returned"
    /\ running' = [running EXCEPT ![w] = FALSE]
    /\ rpc' = [rpc EXCEPT ![w] = "returned"]
    /\ UNCHANGED <<queue, store, disk, sink, ppc, task, temp_files, loc, calls, hist>>

\* what the signal interrupted, from the position of run
Interrupted(r) == CASE r = "dispatch" -> "job"
                     [] r = "poll" -> "poll"
                     [] OTHER -> "idle"

\* (variant) the handler flips the flag: self.running = not self.running
HandleShutdownToggles(w) ==
    /\ rpc[w] # "returned"
    /\ running' = [running EXCEPT ![w] = ~@]
    /\ hist' = [hist EXCEPT ![w].sig = IF running[w] THEN Interrupted(rpc[w]) ELSE @]
    /\ UNCHANGED <<queue, store, disk, sink, rpc, ppc, task, temp_files, loc, calls>>

\* handle_shutdown: the signal handler, which can run between any two steps
HandleShutdown(w) ==
    /\ rpc[w] # "returned"
    /\ running' = [running EXCEPT ![w] = FALSE]
    /\ hist' = [hist EXCEPT ![w].sig = IF running[w] THEN Interrupted(rpc[w]) ELSE @]
    /\ UNCHANGED <<queue, store, disk, sink, rpc, ppc, task, temp_files, loc, calls>>

\* (variant) the loop test ignores the flag: while True
WhileTrue(flag) == "poll"

\* where the test `while self.running:` leads
WhileTarget(flag) == IF flag THEN "poll" ELSE "returned"

LoopTest(w) ==
    /\ rpc[w] = "while"
    /\ rpc' = [rpc EXCEPT ![w] = WhileTarget(running[w])]
    /\ UNCHANGED <<queue, store, disk, sink, running, ppc, task, temp_files, loc, calls, hist>>

\* get_next_task raises (connection error): the except clause of run catches it
PollRaises(w) ==
    /\ rpc[w] = "poll"
    /\ rpc' = [rpc EXCEPT ![w] = "backoff"]
    /\ UNCHANGED <<queue, store, disk, sink, running, ppc, task, temp_files, loc, calls, hist>>

\* the pull times out on an empty queue: task is None, the loop sleeps
PollEmpty(w) ==
    /\ rpc[w] = "poll"
    /\ queue = << >>
    /\ task' = [task EXCEPT ![w] = NoTask]
    /\ rpc' = [rpc EXCEPT ![w] = "sleep"]
    /\ UNCHANGED <<queue, store, disk, sink, running, ppc, temp_files, loc, calls, hist>>

\* (variant) the job is started and the loop goes on without waiting for it
AfterPullNoWait(d) ==
    IF ~Truthy(d) THEN "sleep"
    ELSE IF d.json # "object" THEN "backoff"
    ELSE "tick"

\* where run goes once get_next_task returned the descriptor d
AfterPull(d) ==
    IF ~Truthy(d) THEN "sleep"
    ELSE IF d.json # "object" THEN "backoff"
    ELSE "dispatch"

\* `if task:` holds and task.get at line 252 works: process_task is called
Dispatched(d) == Truthy(d) /\ d.json = "object"

\* (variant) the pull reads the head of the queue and leaves it there (LINDEX
\* in place of BLPOP)
PollJobPeeks(w) ==
    /\ rpc[w] = "poll"
    /\ queue # << >>
    /\ LET d == Head(queue)
       IN /\ task' = [task EXCEPT ![w] = d]
          /\ rpc' = [rpc EXCEPT ![w] = AfterPull(d)]
          /\ hist' = [hist EXCEPT
                         ![w].pulled = @ + 1,
                         ![w].got = IF Dispatched(d) THEN @ + 1 ELSE @,
                         ![w].pulledAfterSig = IF running[w] THEN @ ELSE @ + 1]
          /\ IF Dispatched(d)
                THEN /\ ppc' = [ppc EXCEPT ![w] = "fetch"]
                     /\ temp_files' = [temp_files EXCEPT ![w] = << >>]
                     /\ loc' = [loc EXCEPT ![w] = NewLocals(d)]
                     /\ calls' = [calls EXCEPT ![w] = << >>]
                ELSE UNCHANGED <<ppc, temp_files, loc, calls>>
    /\ UNCHANGED <<queue, store, disk, sink, running>>

\* the pull removes the head of the queue; a dict is handed to process_task,
\* whose lines 92-99 set up its locals
PollJob(w) ==
    /\ rpc[w] = "poll"
    /\ queue # << >>
    /\ LET d == Head(queue)
       IN /\ queue' = Tail(queue)
          /\ task' = [task EXCEPT ![w] = d]
          /\ rpc' = [rpc EXCEPT ![w] = AfterPull(d)]
          /\ hist' = [hist EXCEPT
                         ![w].pulled = @ + 1,
                         ![w].got = IF Dispatched(d) THEN @ + 1 ELSE @,
                         ![w].pulledAfterSig = IF running[w] THEN @ ELSE @ + 1]
          /\ IF Dispatched(d)
                THEN /\ ppc' = [ppc EXCEPT ![w] = "fetch"]
                     /\ temp_files' = [temp_files EXCEPT ![w] = << >>]
                     /\ loc' = [loc EXCEPT ![w] = NewLocals(d)]
                     /\ calls' = [calls EXCEPT ![w] = << >>]
                ELSE UNCHANGED <<ppc, temp_files, loc, calls>>
    /\ UNCHANGED <<store, disk, sink, running>>

\* where run goes when process_task is over: its except clause if an
\* exception came out, else the logging of the success flag
AfterDispatch(l) == IF l.exc.raised THEN "backoff" ELSE "tick"

\* process_task is over: its locals are gone and control is back in run
Return(w) ==
    /\ rpc[w] = "dispatch"
    /\ ppc[w] = "return"
    /\ ppc' = [ppc EXCEPT ![w] = "idle"]
    /\ rpc' = [rpc EXCEPT ![w] = AfterDispatch(loc[w])]
    /\ hist' = [hist EXCEPT ![w].done = @ + 1]
    /\ task' = [task EXCEPT ![w] = NoTask]
    /\ temp_files' = [temp_files EXCEPT ![w] = << >>]
    /\ loc' = [loc EXCEPT ![w] = NoLocals]
    /\ calls' = [calls EXCEPT ![w] = << >>]
    /\ UNCHANGED <<queue, store, disk, sink, running>>

\* time.sleep(1) when there was no task
Sleep(w) ==
    /\ rpc[w] = "sleep"
    /\ rpc' = [rpc EXCEPT ![w] = "tick"]
    /\ UNCHANGED <<queue, store, disk, sink, running, ppc, task, temp_files, loc, calls, hist>>

\* (variant) the try statement encloses the loop: an exception ends run
BackoffOutsideLoop(w) ==
    /\ rpc[w] = "backoff"
    /\ rpc' = [rpc EXCEPT ![w] = "returned"]
    /\ UNCHANGED <<queue, store, disk, sink, running, ppc, task, temp_files, loc, calls, hist>>

\* the except clause of run: log, time.sleep(5)
Backoff(w) ==
    /\ rpc[w] = "backoff"
    /\ rpc' = [rpc EXCEPT ![w] = "tick"]
    /\ UNCHANGED <<queue, store, disk, sink, running, ppc, task, temp_files, loc, calls, hist>>

\* time.sleep(0.1) at the end of every iteration
Tick(w) ==
    /\ rpc[w] = "tick"
    /\ rpc' = [rpc EXCEPT ![w] = "while"]
    /\ UNCHANGED <<queue, store, disk, sink, running, ppc, task, temp_files, loc, calls, hist>>

----------------------------------------------------------------------------
(* The processors and clients, as functions of the file system and of what *)
(* the external tool or server does                                         *)

\* what one ffmpeg run for a thumbnail can do: its exit code, and whether it
\* wrote the output file
ThumbnailRuns == [rc : {0, 1}, wrote : BOOLEAN]

\* what one ffmpeg run for HLS can do: its exit code, the segments it wrote
\* (master0.ts .. master<segs-1>.ts) and whether it wrote the playlist
HlsRuns == [rc : {0, 1}, segs : 0..MaxSegs, playlist : BOOLEAN]

\* what one mediainfo run can do: its exit code, whether its output is JSON,
\* and the track types the output lists
TrackTypes == {"General", "Video", "Audio"}
ProbeRuns == [rc : {0, 1}, json : BOOLEAN, tracks : SUBSET TrackTypes]

\* the result of a processor call: error is `'error' in result` (for
\* analyze_video: it raised), text the error text, fs the file system after
\* the call, spawned whether a tool process was started
Failure(text, fs, spawned) ==
    [error |-> TRUE, text |-> text, fs |-> fs, spawned |-> spawned,
     path |-> NoFile, segments_count |-> 0, audio |-> FALSE]

Success(path, n, audio, fs) ==
    [error |-> FALSE, text |-> << >>, fs |-> fs, spawned |-> TRUE,
     path |-> path, segments_count |-> n, audio |-> audio]

\* FFmpegProcessor.generate_thumbnail(video_path, timestamp, width=640)
GenerateThumbnail(video_path, timestamp, fs, run) ==
    LET output_path == ThumbPath(video_path, timestamp)
        after == IF run.wrote THEN fs \cup {output_path} ELSE fs
    IN IF video_path \notin fs
          THEN Failure(<<"video file not found">>, fs, FALSE)
       ELSE IF run.rc # 0
          THEN Failure(<<"FFmpeg error">>, after, TRUE)
       ELSE IF output_path \notin after
          THEN Failure(<<"file not created">>, after, TRUE)
       ELSE Success(output_path, 0, FALSE, after)

\* (variant) quality_settings has a fourth entry, "4k"
QualityLabelsWith4k == {"480p", "720p", "1080p", "4k"}

\* the keys of quality_settings
QualityLabels == {"480p", "720p", "1080p"}

\* str(list(quality_settings.keys()))
QualityLabelList == <<"480p", "720p", "1080p">>

\* FFmpegProcessor.transcode_to_hls(video_path, quality=quality)
TranscodeToHls(video_path, quality, fs, run) ==
    LET output_dir == HlsDir(video_path, quality)
        master_playlist == MasterPlaylist(output_dir)
        made == fs \cup {output_dir}
        after == made \cup {Segment(output_dir, n) : n \in 0..(run.segs - 1)}
                      \cup (IF run.playlist THEN {master_playlist} ELSE {})
        segment_files == {f \in ListDir(DirName(output_dir), after) : f.ext = ".ts"}
    IN IF video_path \notin fs
          THEN Failure(<<"video file not found">>, fs, FALSE)
       ELSE IF quality \notin QualityLabels
          THEN Failure(<<"unsupported quality", quality, "available">>
                           \o QualityLabelList, fs, FALSE)
       ELSE IF run.rc # 0
          THEN Failure(<<"FFmpeg error">>, after, TRUE)
       ELSE IF master_playlist \notin after
          THEN Failure(<<"HLS playlist not created">>, after, TRUE)
       ELSE Success(master_playlist, Cardinality(segment_files), FALSE, after)

\* what analyze_video gets to see of a mediainfo run: whether stdout was
\* read and parsed as JSON, and the track types the parsed output lists
ProbeOutput(run) ==
    LET parsed == run.rc = 0 /\ run.json
    IN [parsed |-> parsed, tracks |-> IF parsed THEN run.tracks ELSE {}]

\* (variant) the audio section is always written
HasAudioSectionAlways(tracks) == TRUE

\* `if audio_track:` : the metadata gets an audio section
HasAudioSection(tracks) == "Audio" \in tracks

\* MediaInfoProcessor.analyze_video(video_path)
AnalyzeVideo(video_path, fs, run) ==
    IF video_path \notin fs
       THEN Failure(<<"video file not found">>, fs, FALSE)
    ELSE IF run.rc # 0
       THEN Failure(<<"MediaInfo error">>, fs, TRUE)
    ELSE IF ~run.json
       THEN Failure(<<"bad MediaInfo output">>, fs, TRUE)
    ELSE IF "Video" \notin run.tracks
       THEN Failure(<<"video track not found">>, fs, TRUE)
    ELSE Success(video_path, 0, HasAudioSection(run.tracks), fs)

\* (variant) the try statement encloses the loop: the first deletion that
\* fails ends the cleanup
RECURSIVE CleanupTempFilesAborting(_, _, _)
CleanupTempFilesAborting(file_paths, fs, failing) ==
    IF file_paths = << >> THEN fs
    ELSE LET path == Head(file_paths)
         IN IF path \in fs /\ path \in failing
               THEN fs
               ELSE CleanupTempFilesAborting(Tail(file_paths), fs \ {path}, failing)

\* (variant) no os.path.exists test and no try statement: a missing path and
\* a failing deletion raise
CleanupRaisesOnMissing(file_paths, fs, failing) ==
    \E i \in DOMAIN file_paths : file_paths[i] \notin fs \/ file_paths[i] \in failing

\* whether cleanup_temp_files raises: the try statement inside its loop
\* catches what os.path.exists and os.remove raise
CleanupRaises(file_paths, fs, failing) == FALSE

\* MediaWorker.cleanup_temp_files(file_paths) on the file system fs, where
\* os.remove fails on the paths of failing: the file system it leaves
RECURSIVE CleanupTempFiles(_, _, _)
CleanupTempFiles(file_paths, fs, failing) ==
    IF file_paths = << >> THEN fs
    ELSE LET path == Head(file_paths)
             next == IF path \in fs /\ path \notin failing
                        THEN fs \ {path}
                        ELSE fs
         IN CleanupTempFiles(Tail(file_paths), next, failing)

\* RedisClient.update_task_status: hset merges update_data into the hash
UpdateTaskStatus(hashes, task_id, status, result_data) ==
    LET key == SinkKey(task_id)
        update_data == [f \in {"status"} \cup DOMAIN result_data |->
                           IF f \in DOMAIN result_data THEN result_data[f] ELSE status]
        old == IF key \in DOMAIN hashes THEN hashes[key] ELSE << >>
        merged == [f \in DOMAIN old \cup DOMAIN update_data |->
                      IF f \in DOMAIN update_data THEN update_data[f] ELSE old[f]]
    IN [k \in DOMAIN hashes \cup {key} |-> IF k = key THEN merged ELSE hashes[k]]

----------------------------------------------------------------------------
(* MediaWorker.process_task, one step per stage                             *)

\* one entry of calls: the collaborator called, its argument, whether a tool
\* process was spawned, and whether the call succeeded
Call(op, arg, spawned, ok) == [op |-> op, arg |-> arg, spawned |-> spawned, ok |-> ok]

\* an exception is raised in the try block
Raised(l, text) == [l EXCEPT !.exc = [raised |-> TRUE, text |-> text]]

\* (variant) the error of a step is not looked at: the next statement runs
TargetUnchecked(raised, next) == next

\* where the try block goes after a step: to the except clause if the step
\* raised, else on to the next statement
Target(raised, next) == IF raised THEN "except" ELSE next

\* a step of process_task, which `next` follows in the try block, raises the
\* exception `text` having made the collaborator calls cs
Raise(w, cs, text, next) ==
    /\ ppc' = [ppc EXCEPT ![w] = Target(TRUE, next)]
    /\ loc' = [loc EXCEPT ![w] = Raised(@, text)]
    /\ calls' = [calls EXCEPT ![w] = @ \o cs]

\* 1. download of the source video
Fetch(w) ==
    /\ ppc[w] = "fetch"
    /\ IF ~HasKey(task[w], "source_path")
          THEN /\ Raise(w, << >>, <<"KeyError", "source_path">>, "thumbnail")
               /\ UNCHANGED <<disk, temp_files>>
          ELSE \E served \in BOOLEAN :
                  LET object == <<task[w].members.source_path>>
                      local_path == InputPath(loc[w].task_id)
                      ok == served /\ object \in store
                  IN IF ok
                        THEN /\ disk' = disk \cup {local_path}
                             /\ temp_files' = [temp_files EXCEPT ![w] = Append(@, local_path)]
                             /\ loc' = [loc EXCEPT ![w].video_path = local_path]
                             /\ calls' = [calls EXCEPT ![w] =
                                             Append(@, Call("download_file", "", FALSE, TRUE))]
                             /\ ppc' = [ppc EXCEPT ![w] = Target(FALSE, "thumbnail")]
                        ELSE /\ Raise(w, <<Call("download_file", "", FALSE, FALSE)>>,
                                      <<"S3Error">>, "thumbnail")
                             /\ UNCHANGED <<disk, temp_files>>
    /\ UNCHANGED <<queue, store, sink, running, rpc, task, hist>>

\* 2. thumbnail
Thumbnail(w) ==
    /\ ppc[w] = "thumbnail"
    /\ IF ~HasKey(task[w], "thumbnail_time")
          THEN /\ Raise(w, << >>, <<"KeyError", "thumbnail_time">>, "transcode")
               /\ UNCHANGED <<disk, temp_files>>
          ELSE \E run \in ThumbnailRuns :
                  LET r == GenerateThumbnail(loc[w].video_path,
                                             task[w].members.thumbnail_time, disk, run)
                      c == Call("generate_thumbnail", "", r.spawned, ~r.error)
                  IN /\ disk' = r.fs
                     /\ IF r.error
                           THEN /\ Raise(w, <<c>>, <<"thumbnail error">> \o r.text, "transcode")
                                /\ UNCHANGED temp_files
                           ELSE /\ temp_files' = [temp_files EXCEPT ![w] = Append(@, r.path)]
                                /\ loc' = [loc EXCEPT ![w].thumbnail_path = r.path]
                                /\ calls' = [calls EXCEPT ![w] = Append(@, c)]
                                /\ ppc' = [ppc EXCEPT ![w] = Target(FALSE, "transcode")]
    /\ UNCHANGED <<queue, store, sink, running, rpc, task, hist>>

\* 3. transcoding, and the listing of the HLS directory for cleanup
Transcode(w) ==
    /\ ppc[w] = "transcode"
    /\ IF ~HasKey(task[w], "quality")
          THEN /\ Raise(w, << >>, <<"KeyError", "quality">>, "probe")
               /\ UNCHANGED <<disk, temp_files>>
          ELSE \E run \in HlsRuns :
                  LET r == TranscodeToHls(loc[w].video_path, task[w].members.quality,
                                          disk, run)
                      c == Call("transcode_to_hls", "", r.spawned, ~r.error)
                      hls_dir == r.path.dir
                  IN /\ disk' = r.fs
                     /\ IF r.error
                           THEN /\ Raise(w, <<c>>, <<"transcoding error">> \o r.text, "probe")
                                /\ UNCHANGED temp_files
                           ELSE \E listing \in Orders(HlsFilter(ListDir(hls_dir, r.fs))) :
                                   /\ temp_files' = [temp_files EXCEPT ![w] = @ \o listing]
                                   /\ loc' = [loc EXCEPT ![w].hls_dir = hls_dir,
                                                         ![w].listing = listing,
                                                         ![w].segments_count = r.segments_count,
                                                         ![w].written = run.segs]
                                   /\ calls' = [calls EXCEPT ![w] = Append(@, c)]
                                   /\ ppc' = [ppc EXCEPT ![w] = Target(FALSE, "probe")]
    /\ UNCHANGED <<queue, store, sink, running, rpc, task, hist>>

\* 4. metadata
Probe(w) ==
    /\ ppc[w] = "probe"
    /\ \E run \in ProbeRuns :
          LET r == AnalyzeVideo(loc[w].video_path, disk, run)
              c == Call("analyze_video", "", r.spawned, ~r.error)
          IN IF r.error
                THEN Raise(w, <<c>>, r.text, "upload_thumbnail")
                ELSE /\ loc' = [loc EXCEPT ![w].metadata =
                                   IF r.audio THEN "video+audio" ELSE "video"]
                     /\ calls' = [calls EXCEPT ![w] = Append(@, c)]
                     /\ ppc' = [ppc EXCEPT ![w] = Target(FALSE, "upload_thumbnail")]
    /\ UNCHANGED <<queue, store, disk, sink, running, rpc, task, temp_files, hist>>

\* MinioClient.upload_file: the bucket after the call, which raises if the
\* server does not serve it or the local file does not exist
UploadOk(local_path, fs, served) == served /\ local_path \in fs

\* 5. upload of the thumbnail, and the second listing of the HLS directory
UploadThumbnail(w) ==
    /\ ppc[w] = "upload_thumbnail"
    /\ IF ~HasKey(task[w], "output_prefix")
          THEN /\ Raise(w, << >>, <<"KeyError", "output_prefix">>, "upload_hls")
               /\ UNCHANGED store
          ELSE \E served \in BOOLEAN :
                  LET object_name == ThumbnailName(task[w].members.output_prefix)
                      ok == UploadOk(loc[w].thumbnail_path, disk, served)
                      c == Call("upload_file", "_thumbnail.jpg", FALSE, ok)
                      found == HlsFilter(ListDir(loc[w].hls_dir, disk))
                  IN IF ok
                        THEN \E listing \in Orders(found) :
                                \* an unchanged directory lists in the same order
                                /\ found = Range(loc[w].listing) => listing = loc[w].listing
                                /\ store' = store \cup {object_name}
                                /\ loc' = [loc EXCEPT ![w].thumbnail_url = Url(object_name),
                                                      ![w].hls_files = listing]
                                /\ calls' = [calls EXCEPT ![w] = Append(@, c)]
                                /\ ppc' = [ppc EXCEPT ![w] =
                                              Target(FALSE, IF listing = << >>
                                                               THEN "write_completed"
                                                               ELSE "upload_hls")]
                        ELSE /\ Raise(w, <<c>>, <<"S3Error">>, "upload_hls")
                             /\ UNCHANGED store
    /\ UNCHANGED <<queue, disk, sink, running, rpc, task, temp_files, hist>>

\* 5. upload of the next HLS file
UploadHls(w) ==
    /\ ppc[w] = "upload_hls"
    /\ \E served \in BOOLEAN :
          LET i == Len(loc[w].hls_urls) + 1
              f == loc[w].hls_files[i]
              object_name == HlsObjectName(task[w].members.output_prefix, f)
              ok == UploadOk(f, disk, served)
              c == Call("upload_file", f.name \o f.ext, FALSE, ok)
              next == IF i = Len(loc[w].hls_files) THEN "write_completed" ELSE "upload_hls"
          IN IF ok
                THEN /\ store' = store \cup {object_name}
                     /\ loc' = [loc EXCEPT ![w].hls_urls = Append(@, Url(object_name))]
                     /\ calls' = [calls EXCEPT ![w] = Append(@, c)]
                     /\ ppc' = [ppc EXCEPT ![w] = Target(FALSE, next)]
                ELSE /\ Raise(w, <<c>>, <<"S3Error">>, next)
                     /\ UNCHANGED store
    /\ UNCHANGED <<queue, disk, sink, running, rpc, task, temp_files, hist>>

\* 'master.m3u8' in url
ContainsMaster(url) == \E i \in DOMAIN url : url[i] = "master.m3u8"

\* next((url for url in hls_urls if 'master.m3u8' in url), None)
MasterPlaylistUrl(hls_urls) ==
    IF \E i \in DOMAIN hls_urls : ContainsMaster(hls_urls[i])
       THEN hls_urls[CHOOSE i \in DOMAIN hls_urls :
                        /\ ContainsMaster(hls_urls[i])
                        /\ \A j \in 1..(i - 1) : ~ContainsMaster(hls_urls[j])]
       ELSE <<"None">>

\* 6. the record of a completed job
ResultData(l) ==
    [status |-> "completed",
     thumbnail_url |-> l.thumbnail_url,
     master_playlist_url |-> MasterPlaylistUrl(l.hls_urls),
     hls_segments_count |-> l.segments_count,
     total_size_mb |-> "size",
     metadata |-> l.metadata,
     processing_time_sec |-> "seconds",
     completed_at |-> "time"]

\* (variant) the local video path is tracked before the download is tried
ErrorDataWithTarget(l, files) ==
    [status |-> "failed",
     error |-> l.exc.text,
     error_time |-> "time",
     attempted_files |-> IF files = << >> THEN <<InputPath(l.task_id)>> ELSE files]

\* the record of a failed job
ErrorData(l, files) ==
    [status |-> "failed",
     error |-> l.exc.text,
     error_time |-> "time",
     attempted_files |-> files]

\* (variant) the write of the completed record is in a try statement of its
\* own, which only logs
AfterCompletedWriteLogged(ok) == "finally"

\* where the try block goes after the write of the completed record
AfterCompletedWrite(ok) == Target(~ok, "finally")

\* 7. the write of the completed record, and return True
WriteCompleted(w) ==
    /\ ppc[w] = "write_completed"
    /\ \E ok \in BOOLEAN :
          LET c == Call("update_task_status", "completed", FALSE, ok)
          IN IF AfterCompletedWrite(ok) = "except"
                THEN /\ Raise(w, <<c>>, <<"RedisError">>, "finally")
                     /\ UNCHANGED sink
                ELSE /\ sink' = IF ok
                                   THEN UpdateTaskStatus(sink, loc[w].task_id, "completed",
                                                         ResultData(loc[w]))
                                   ELSE sink
                     /\ loc' = [loc EXCEPT ![w].ret = "True"]
                     /\ calls' = [calls EXCEPT ![w] = Append(@, c)]
                     /\ ppc' = [ppc EXCEPT ![w] = "finally"]
    /\ UNCHANGED <<queue, store, disk, running, rpc, task, temp_files, hist>>

\* (variant) the except clause ends with `raise`
HandledReraised(l) == [l EXCEPT !.ret = "False"]

\* the locals once the except clause has handled the exception
Handled(l) == [l EXCEPT !.exc = NoExc, !.ret = "False"]

\* the except clause: the write of the failed record, whose own failure is
\* only logged, and return False
Except(w) ==
    /\ ppc[w] = "except"
    /\ \E ok \in BOOLEAN :
          /\ sink' = IF ok
                        THEN UpdateTaskStatus(sink, loc[w].task_id, "failed",
                                              ErrorData(loc[w], temp_files[w]))
                        ELSE sink
          /\ calls' = [calls EXCEPT ![w] =
                          Append(@, Call("update_task_status", "failed", FALSE, ok))]
    /\ loc' = [loc EXCEPT ![w] = Handled(@)]
    /\ ppc' = [ppc EXCEPT ![w] = "finally"]
    /\ UNCHANGED <<queue, store, disk, running, rpc, task, temp_files, hist>>

\* (variant) the cleanup is the last statement of the try block, not a
\* finally clause: it runs on success only
FinallyOnSuccess(w) ==
    /\ ppc[w] = "finally"
    /\ IF loc[w].ret = "True"
          THEN /\ disk' = CleanupTempFiles(temp_files[w], disk, {})
               /\ calls' = [calls EXCEPT ![w] =
                               Append(@, Call("cleanup_temp_files", "", FALSE, TRUE))]
          ELSE UNCHANGED <<disk, calls>>
    /\ ppc' = [ppc EXCEPT ![w] = "return"]
    /\ UNCHANGED <<queue, store, sink, running, rpc, task, temp_files, loc, hist>>

\* the finally clause: cleanup of the tracked files
Finally(w) ==
    /\ ppc[w] = "finally"
    /\ \E failing \in SUBSET (Range(temp_files[w]) \cap disk) :
          /\ Cardinality(failing) <= MaxDeleteFailures
          /\ disk' = CleanupTempFiles(temp_files[w], disk, failing)
          \* the call is recorded with the paths whose deletion failed
          /\ calls' = [calls EXCEPT ![w] =
                          Append(@, Call("cleanup_temp_files", failing, FALSE,
                                         ~CleanupRaises(temp_files[w], disk, failing)))]
    /\ ppc' = [ppc EXCEPT ![w] = "return"]
    /\ UNCHANGED <<queue, store, sink, running, rpc, task, temp_files, loc, hist>>

----------------------------------------------------------------------------
(* The specification *)

Next ==
    \E w \in Workers :
        \/ HandleShutdown(w)
        \/ LoopTest(w)
        \/ PollRaises(w)
        \/ PollEmpty(w)
        \/ PollJob(w)
        \/ Fetch(w)
        \/ Thumbnail(w)
        \/ Transcode(w)
        \/ Probe(w)
        \/ UploadThumbnail(w)
        \/ UploadHls(w)
        \/ WriteCompleted(w)
        \/ Except(w)
        \/ Finally(w)
        \/ Return(w)
        \/ Sleep(w)
        \/ Backoff(w)
        \/ Tick(w)

Spec == Init /\ [][Next]_vars

\* every step of the worker process; the signal is the environment's
WorkerStep(w) ==
    \/ LoopTest(w) \/ PollRaises(w) \/ PollEmpty(w) \/ PollJob(w)
    \/ Fetch(w) \/ Thumbnail(w) \/ Transcode(w) \/ Probe(w)
    \/ UploadThumbnail(w) \/ UploadHls(w) \/ WriteCompleted(w)
    \/ Except(w) \/ Finally(w) \/ Return(w)
    \/ Sleep(w) \/ Backoff(w) \/ Tick(w)

\* the worker process keeps running: every call it makes returns or raises
LiveSpec == Init /\ [][Next]_vars /\ \A w \in Workers : WF_vars(WorkerStep(w))

----------------------------------------------------------------------------
(* Several worker instances on the same queue, bucket, status store and    *)
(* temporary directory (worker.py is started once per instance)            *)

Fleet == {"w1", "w2"}

\* a job without id and output_prefix
JobNoId ==
    [source_path |-> SourceObject, thumbnail_time |-> "00:00:05", quality |-> "720p"]

\* a job with an unsupported quality label
Job4k == [JobOk EXCEPT !.quality = "4k"]

\* two jobs with the same id, or two jobs with no id
FleetQueueContents ==
    { <<Obj(JobOk), Obj(Job4k)>>,
      <<Obj(JobNoId), Obj(JobNoId)>> }

FleetInit ==
    /\ queue \in FleetQueueContents
    /\ store = {<<SourceObject>>}
    /\ disk = {}
    /\ sink = << >>
    /\ running = [w \in Fleet |-> TRUE]
    /\ rpc = [w \in Fleet |-> "while"]
    /\ ppc = [w \in Fleet |-> "idle"]
    /\ task = [w \in Fleet |-> NoTask]
    /\ temp_files = [w \in Fleet |-> << >>]
    /\ loc = [w \in Fleet |-> NoLocals]
    /\ calls = [w \in Fleet |-> << >>]
    /\ hist = [w \in Fleet |-> NoHist]

\* the worker process is killed: it takes no further step, and what it held
\* in memory (the pulled descriptor, the tracked paths) is with no one else
Crash(w) ==
    /\ rpc[w] \notin {"returned", "crashed"}
    /\ rpc' = [rpc EXCEPT ![w] = "crashed"]
    /\ ppc' = [ppc EXCEPT ![w] = IF @ = "idle" THEN "idle" ELSE "crashed"]
    /\ UNCHANGED <<queue, store, disk, sink, running, task, temp_files, loc, calls, hist>>

\* the fleet while it drains the queue: no shutdown signal is sent
FleetNext ==
    \E w \in Fleet :
        \/ WorkerStep(w)
        \/ Crash(w)

FleetSpec == FleetInit /\ [][FleetNext]_vars

----------------------------------------------------------------------------
(* cleanup_temp_files on its own: any list of paths, any file system, and  *)
(* a second call with the same list                                        *)

CleanupPaths ==
    LET video == InputPath("t1")
        bundle == HlsDir(video, "720p")
    IN {video, ThumbPath(video, "00:00:05"), MasterPlaylist(bundle), Segment(bundle, 0)}

\* the lists of paths: with repetitions, and with paths that do not exist
TrackedLists == UNION {[1..n -> CleanupPaths] : n \in 0..MaxTracked}

CleanupInit ==
    /\ disk \in SUBSET CleanupPaths
    /\ temp_files \in [Workers -> TrackedLists]
    /\ queue = << >>
    /\ store = {<<SourceObject>>}
    /\ sink = << >>
    /\ running = [w \in Workers |-> TRUE]
    /\ rpc = [w \in Workers |-> "dispatch"]
    /\ ppc = [w \in Workers |-> "finally"]
    /\ task = [w \in Workers |-> Obj(JobOk)]
    /\ loc = [w \in Workers |-> Handled(NewLocals(Obj(JobOk)))]
    /\ calls = [w \in Workers |-> << >>]
    /\ hist = [w \in Workers |-> NoHist]

\* self.cleanup_temp_files(temp_files) is called once more with the same list
CleanupAgain(w) ==
    /\ ppc[w] = "return"
    /\ Len(calls[w]) = 1
    /\ \E failing \in SUBSET (Range(temp_files[w]) \cap disk) :
          /\ Cardinality(failing) <= MaxDeleteFailures
          /\ disk' = CleanupTempFiles(temp_files[w], disk, failing)
          /\ calls' = [calls EXCEPT ![w] =
                          Append(@, Call("cleanup_temp_files", failing, FALSE,
                                         ~CleanupRaises(temp_files[w], disk, failing)))]
    /\ UNCHANGED <<queue, store, sink, running, rpc, ppc, task, temp_files, loc, hist>>

CleanupNext == \E w \in Workers : Finally(w) \/ CleanupAgain(w)

CleanupSpec == CleanupInit /\ [][CleanupNext]_vars

----------------------------------------------------------------------------
(* the processors on their own: analyze_video, calculate_vmaf and          *)
(* generate_thumbnail called once each on any file system, with any tool   *)
(* run, any requested width and any source frame size                      *)

\* an integer division rounding to nearest, halves away from zero (a >= 0,
\* b > 0)
RoundDiv(a, b) == (2 * a + b) \div (2 * b)

\* (variant) scale={width}:-1 : the height keeps the aspect ratio, with no
\* divisibility
ScaleHeightAny(width, iw, ih) == RoundDiv(width * ih, iw)

\* the height ffmpeg computes for scale={width}:-2 on an iw x ih frame: the
\* aspect ratio is kept and the result is made divisible by 2
ScaleHeight(width, iw, ih) == 2 * RoundDiv(width * ih, 2 * iw)

\* the size of the frame after -vf scale={width}:-2
ScaledSize(width, iw, ih) == [w |-> width, h |-> ScaleHeight(width, iw, ih)]

NoImage == [w |-> 0, h |-> 0]

\* the requested widths and the sides of the source frame
Widths == 1..MaxWidth
FrameSides == 1..MaxFrameSide

\* the ffmpeg runs for a thumbnail of the given width from an iw x ih frame:
\* a frame scaled to height 0 is not encoded, ffmpeg exits non-zero and writes
\* nothing
ThumbnailRunsFor(width, iw, ih) ==
    {run \in ThumbnailRuns :
        ScaledSize(width, iw, ih).h = 0 => run.rc # 0 /\ ~run.wrote}

\* the report calculate_vmaf names when output_json is None
VmafReport(original_path) ==
    File("/tmp/vmaf_results", "vmaf_" \o original_path.name \o original_path.ext, ".json")

\* what one ffmpeg run with libvmaf can do: its exit code, whether it wrote
\* the report; and of the report that is read: whether it is JSON and whether
\* it has the pooled_metrics and frames keys
VmafRuns == [rc : {0, 1}, report : BOOLEAN, json : BOOLEAN, metrics : BOOLEAN]

\* (variant) the except clause re-raises
VmafExceptReraises(text, fs, spawned) ==
    [error |-> FALSE, raised |-> TRUE, text |-> text, fs |-> fs, spawned |-> spawned]

\* `except Exception as e:` of calculate_vmaf: the result carries "error"
VmafExcept(text, fs, spawned) ==
    [error |-> TRUE, raised |-> FALSE, text |-> text, fs |-> fs, spawned |-> spawned]

\* VMAFProcessor.calculate_vmaf(original_path, compressed_path)
CalculateVmaf(original_path, compressed_path, fs, run) ==
    LET output_json == VmafReport(original_path)
        after == IF run.report THEN fs \cup {output_json} ELSE fs
    IN IF original_path \notin fs
          THEN VmafExcept(<<"original not found">>, fs, FALSE)
       ELSE IF compressed_path \notin fs
          THEN VmafExcept(<<"compressed not found">>, fs, FALSE)
       ELSE IF run.rc # 0
          THEN VmafExcept(<<"VMAF error">>, after, TRUE)
       ELSE IF output_json \notin after
          THEN VmafExcept(<<"report not created">>, after, TRUE)
       ELSE IF ~run.json
          THEN VmafExcept(<<"bad report">>, after, TRUE)
       ELSE IF ~run.metrics
          THEN VmafExcept(<<"missing key">>, after, TRUE)
       ELSE [error |-> FALSE, raised |-> FALSE, text |-> << >>, fs |-> after,
             spawned |-> TRUE]

ToolVideo == InputPath("t1")
ToolEncoded == File(TempDir, "encoded_t1", ".mp4")
ToolPaths == {ToolVideo, ToolEncoded, VmafReport(ToolVideo)}

ToolInit ==
    /\ disk \in SUBSET ToolPaths
    /\ queue = << >>
    /\ store = {<<SourceObject>>}
    /\ sink = << >>
    /\ running = [w \in Workers |-> TRUE]
    /\ rpc = [w \in Workers |-> "while"]
    /\ ppc = [w \in Workers |-> "idle"]
    /\ task = [w \in Workers |-> NoTask]
    /\ temp_files = [w \in Workers |-> << >>]
    /\ loc = [w \in Workers |-> NoLocals]
    /\ calls = [w \in Workers |-> << >>]
    /\ hist = [w \in Workers |-> NoHist]

\* MediaInfoProcessor.analyze_video(video_path), called on its own; the call
\* keeps what the tool printed and whether the metadata has an audio section
AnalyzeAlone(w) ==
    /\ calls[w] = << >>
    /\ \E run \in ProbeRuns :
          LET r == AnalyzeVideo(ToolVideo, disk, run)
              c == Call("analyze_video",
                        [out |-> ProbeOutput(run), audio |-> r.audio],
                        r.spawned, ~r.error)
          IN /\ disk' = r.fs
             /\ calls' = [calls EXCEPT ![w] = Append(@, c)]
    /\ UNCHANGED <<queue, store, sink, running, rpc, ppc, task, temp_files, loc, hist>>

\* VMAFProcessor.calculate_vmaf(original_path, compressed_path), called on
\* its own; the call keeps what it was given, what the tool did, and whether
\* the call returned an "error" result or raised
VmafAlone(w) ==
    /\ calls[w] = << >>
    /\ \E run \in VmafRuns :
          LET r == CalculateVmaf(ToolVideo, ToolEncoded, disk, run)
              c == Call("calculate_vmaf",
                        [original |-> ToolVideo \in disk,
                         compressed |-> ToolEncoded \in disk,
                         rc |-> run.rc,
                         report |-> VmafReport(ToolVideo) \in r.fs,
                         json |-> run.json,
                         error |-> r.error, raised |-> r.raised],
                        r.spawned, ~r.error /\ ~r.raised)
          IN /\ disk' = r.fs
             /\ calls' = [calls EXCEPT ![w] = Append(@, c)]
    /\ UNCHANGED <<queue, store, sink, running, rpc, ppc, task, temp_files, loc, hist>>

\* FFmpegProcessor.generate_thumbnail(video_path, timestamp, width=width),
\* called on its own on a source of frame size iw x ih; the call keeps the
\* requested width, the frame size and the size of the image written
ThumbnailAlone(w) ==
    /\ calls[w] = << >>
    /\ \E width \in Widths, iw \in FrameSides, ih \in FrameSides :
       \E run \in ThumbnailRunsFor(width, iw, ih) :
          LET r == GenerateThumbnail(ToolVideo, "00:00:05", disk, run)
              c == Call("generate_thumbnail",
                        [width |-> width, frame |-> <<iw, ih>>,
                         image |-> IF run.wrote /\ r.spawned
                                      THEN ScaledSize(width, iw, ih)
                                      ELSE NoImage],
                        r.spawned, ~r.error)
          IN /\ disk' = r.fs
             /\ calls' = [calls EXCEPT ![w] = Append(@, c)]
    /\ UNCHANGED <<queue, store, sink, running, rpc, ppc, task, temp_files, loc, hist>>

ToolNext == \E w \in Workers : AnalyzeAlone(w) \/ VmafAlone(w) \/ ThumbnailAlone(w)

ToolSpec == ToolInit /\ [][ToolNext]_vars

----------------------------------------------------------------------------
(* one worker and one job, whose output_prefix is any of Prefixes: one of  *)
(* them is itself the text that process_task looks for in the URLs         *)

Prefixes == {"out1", "master.m3u8"}

PrefixInit ==
    /\ queue \in {<<Obj([JobOk EXCEPT !.output_prefix = p])>> : p \in Prefixes}
    /\ store = {<<SourceObject>>}
    /\ disk = {}
    /\ sink = << >>
    /\ running = [w \in Workers |-> TRUE]
    /\ rpc = [w \in Workers |-> "while"]
    /\ ppc = [w \in Workers |-> "idle"]
    /\ task = [w \in Workers |-> NoTask]
    /\ temp_files = [w \in Workers |-> << >>]
    /\ loc = [w \in Workers |-> NoLocals]
    /\ calls = [w \in Workers |-> << >>]
    /\ hist = [w \in Workers |-> NoHist]

PrefixSpec == PrefixInit /\ [][Next]_vars

----------------------------------------------------------------------------
(* What the claims speak of *)

\* the positions of the calls of `op` in the calls cs
CallsOf(cs, op) == {i \in DOMAIN cs : cs[i].op = op}

\* the positions of the status writes of the given status
WritesOf(cs, status) ==
    {i \in CallsOf(cs, "update_task_status") : cs[i].arg = status}

\* the place of a call in the pipeline
Rank(c) ==
    CASE c.op = "download_file" -> 1
      [] c.op = "generate_thumbnail" -> 2
      [] c.op = "transcode_to_hls" -> 3
      [] c.op = "analyze_video" -> 4
      [] c.op = "upload_file" -> 5
      [] c.op = "update_task_status" /\ c.arg = "completed" -> 6
      [] c.op = "update_task_status" /\ c.arg = "failed" -> 7
      [] OTHER -> 8

\* process_task has run its finally clause and is about to return
Returning(w) == ppc[w] = "return"

\* the text mentions the token
Mentions(text, token) == \E i \in DOMAIN text : text[i] = token

\* the descriptor carries a quality label outside the supported set
BadLabel(t) == HasKey(t, "quality") /\ t.members.quality \notin {"480p", "720p", "1080p"}

\* the calls of `op` in cs that succeeded
Succeeded(cs, op) == {i \in CallsOf(cs, op) : cs[i].ok}

----------------------------------------------------------------------------
(* The claims *)

\* C1: every run of process_task calls update_task_status exactly once,
\* whatever the outcome. (Fails: a failed write of the completed record is
\* followed by a write of the failed record.)
C1_ExactlyOneSinkWrite ==
    \A w \in Workers :
        Returning(w) => Cardinality(CallsOf(calls[w], "update_task_status")) = 1

\* C2: when the write of the completed record fails, process_task still
\* returns True and attempts no write of a failed record. (Fails: the failure
\* is caught by the except clause.)
C2_FailedWriteKeepsOutcome ==
    \A w \in Workers :
        (Returning(w) /\ \E i \in WritesOf(calls[w], "completed") : ~calls[w][i].ok)
            => loc[w].ret = "True" /\ WritesOf(calls[w], "failed") = {}

\* C3: cleanup is called exactly once per run of process_task, as its last
\* call, after a status write was attempted, and not before the finally clause.
C3_CleanupOnceAfterWrite ==
    \A w \in Workers :
        LET cs == calls[w]
            cl == CallsOf(cs, "cleanup_temp_files")
        IN /\ Returning(w) =>
                /\ Cardinality(cl) = 1
                /\ cs[Len(cs)].op = "cleanup_temp_files"
                /\ CallsOf(cs, "update_task_status") # {}
           /\ ~Returning(w) => cl = {}

\* C3 witness: a failed job with a partial set of staged files has been
\* cleaned up
C3_Witness ==
    \E w \in Workers :
        /\ Returning(w)
        /\ loc[w].ret = "False"
        /\ Len(temp_files[w]) = 2
        /\ \E i \in WritesOf(calls[w], "failed") : ~calls[w][i].ok

\* C4: once the first job of a worker has returned and no deletion of a
\* tracked path failed, nothing that the job created is left on the disk
\* (the disk was empty before). (Fails: the HLS directory, and the files of a
\* failed tool run, are never tracked.)
C4_NothingLeftOnDisk ==
    \A w \in Workers :
        (Returning(w) /\ hist[w].done = 0 /\ Range(temp_files[w]) \cap disk = {})
            => disk = {}

\* C5: the calls of a job come in the order Fetch, Thumbnail, Transcode,
\* Probe, uploads, status write; a call is made only after the stages before
\* it succeeded; after a failed call nothing but the failed record and the
\* cleanup follows.
C5_StagesInOrder ==
    \A w \in Workers :
        LET cs == calls[w]
        IN /\ \A i, j \in DOMAIN cs :
                  i < j => /\ Rank(cs[i]) <= Rank(cs[j])
                           /\ Rank(cs[i]) = Rank(cs[j]) => Rank(cs[i]) = 5
           /\ \A j \in DOMAIN cs :
                  Rank(cs[j]) <= 6 =>
                      \A r \in 1..4 :
                          r < Rank(cs[j]) =>
                              \E i \in 1..(j - 1) : Rank(cs[i]) = r /\ cs[i].ok
           /\ \A i, j \in DOMAIN cs :
                  (i < j /\ ~cs[i].ok /\ Rank(cs[i]) <= 5) => Rank(cs[j]) >= 7

\* C5 witness: the transcoding failed after the first two stages, and the job
\* ended without a probe or an upload
C5_Witness ==
    \E w \in Workers :
        /\ Returning(w)
        /\ \E i \in CallsOf(calls[w], "transcode_to_hls") :
              ~calls[w][i].ok /\ calls[w][i].spawned
        /\ CallsOf(calls[w], "analyze_video") = {}
        /\ CallsOf(calls[w], "upload_file") = {}

\* C6: a run of process_task that did not get to the write of the completed
\* record (a stage failed, or stage code raised) has attempted the write of
\* the failed record and returns False; no run lets an exception out.
C6_FailuresCaught ==
    \A w \in Workers :
        Returning(w) =>
            /\ ~loc[w].exc.raised
            /\ loc[w].ret \in {"True", "False"}
            /\ WritesOf(calls[w], "completed") = {} =>
                  /\ loc[w].ret = "False"
                  /\ WritesOf(calls[w], "failed") # {}

\* C6 witness: the probe failed and the job returns False
C6_Witness ==
    \E w \in Workers :
        /\ Returning(w)
        /\ \E i \in CallsOf(calls[w], "analyze_video") : ~calls[w][i].ok
        /\ loc[w].ret = "False"

\* C7: run leaves its loop only with the flag set; from its except clause it
\* goes on to the pause and the next loop test.
C7_LoopSurvivesErrors ==
    /\ [](\A w \in Workers : rpc[w] = "returned" => ~running[w])
    /\ [][\A w \in Workers :
             /\ rpc[w] = "backoff" => rpc'[w] \in {"backoff", "tick"}
             /\ rpc[w] = "tick" => rpc'[w] \in {"tick", "while"}]_vars

\* C7 witness: the dispatch of a descriptor that is no dict raised, and the
\* worker is polling again
C7_Witness ==
    \E w \in Workers :
        /\ rpc[w] = "poll"
        /\ running[w]
        /\ task[w].json = "array"

\* C8: when run has returned the flag is set and every job handed to
\* process_task has come back from it; process_task is left only through
\* its finally clause.
C8_ReturnsDrained ==
    \A w \in Workers :
        /\ rpc[w] = "returned" =>
              /\ ~running[w]
              /\ ppc[w] = "idle"
              /\ hist[w].done = hist[w].got
        /\ hist[w].done = hist[w].got - (IF ppc[w] = "idle" THEN 0 ELSE 1)

\* C8 witness: the signal came during a job, and run has returned
C8_Witness ==
    \E w \in Workers :
        /\ rpc[w] = "returned"
        /\ hist[w].sig = "job"
        /\ hist[w].done = 1

\* C9 as stated: with the flag set no descriptor is pulled from the queue.
\* (Fails: the flag is tested at the top of the loop only, and a signal
\* between that test and the end of the pull does not stop the pull.)
C9_NoPullAfterSignal ==
    \A w \in Workers : hist[w].pulledAfterSig = 0

\* C9 as amended: with the flag set at most one descriptor is pulled, and
\* only by the pull that the signal interrupted; the job it returns is
\* drained and run returns.
C9_AtMostThePendingPull ==
    /\ [](\A w \in Workers :
             /\ hist[w].pulledAfterSig <= 1
             /\ hist[w].pulledAfterSig = 1 => hist[w].sig = "poll")
    /\ \A w \in Workers : ~running[w] ~> rpc[w] = "returned"

\* C9 witness: the signal came during the pull, the pull returned a job, the
\* job was processed and run has returned
C9_Witness ==
    \E w \in Workers :
        /\ rpc[w] = "returned"
        /\ hist[w].pulledAfterSig = 1
        /\ hist[w].done = 1

\* C10: the worker polls only with no job in flight, and every job handed to
\* process_task before has come back from it.
C10_OneJobAtATime ==
    \A w \in Workers :
        /\ ppc[w] # "idle" => rpc[w] = "dispatch"
        /\ rpc[w] = "poll" => hist[w].done = hist[w].got

\* C10 witness: a second job has been pulled after the first one came back
C10_Witness ==
    \E w \in Workers :
        /\ ppc[w] = "fetch"
        /\ hist[w].got = 2
        /\ hist[w].done = 1

\* C11: with several workers on one queue, a step either leaves the queue and
\* every worker's pull and dispatch counts alone, or removes the head of the
\* queue and hands it to exactly one worker, once; nothing puts a descriptor
\* back. A worker killed in mid-job makes no further call, and a status record
\* is written only by a live worker in process_task, under the key of the job
\* it holds: the job of the killed worker is not processed again and gets no
\* record after the crash.
C11_PulledOnceNeverAgain ==
    /\ [][\/ /\ queue' = queue
              /\ \A w \in Fleet : /\ hist'[w].pulled = hist[w].pulled
                                  /\ hist'[w].got = hist[w].got
           \/ /\ queue # << >>
              /\ queue' = Tail(queue)
              /\ \E w \in Fleet :
                    /\ hist'[w].pulled = hist[w].pulled + 1
                    /\ hist'[w].got - hist[w].got \in {0, 1}
                    /\ task'[w] = Head(queue)
                    /\ \A v \in Fleet \ {w} :
                          /\ hist'[v] = hist[v]
                          /\ task'[v] = task[v]
                          /\ ppc'[v] = ppc[v]]_vars
    /\ [][\A w \in Fleet :
             ppc[w] = "crashed" =>
                 /\ ppc'[w] = "crashed"
                 /\ calls'[w] = calls[w]
                 /\ task'[w] = task[w]]_vars
    /\ [][sink' # sink =>
             \E w \in Fleet :
                 /\ ppc[w] \in {"write_completed", "except"}
                 /\ ppc'[w] = "finally"
                 /\ \A k \in DOMAIN sink' :
                       k # SinkKey(loc[w].task_id) =>
                           k \in DOMAIN sink /\ sink'[k] = sink[k]]_vars

\* C11 witness: a worker was killed in mid-job before any status write, and
\* the other worker, having processed its own job, found the queue empty
C11_Witness ==
    \E w, v \in Fleet :
        /\ w # v
        /\ ppc[w] = "crashed"
        /\ CallsOf(calls[w], "download_file") # {}
        /\ CallsOf(calls[w], "update_task_status") = {}
        /\ queue = << >>
        /\ hist[v].done = 1
        /\ rpc[v] = "sleep"

\* C12: for a job with a quality label outside {480p, 720p, 1080p},
\* transcode_to_hls fails without spawning a tool process and without creating
\* a bundle directory or file, and the error text of the job lists the three
\* valid labels; if Fetch and Thumbnail succeeded the job returns False having
\* attempted the failed record, and the record, when its write succeeds, has
\* status failed and an error text that mentions 480p, 720p and 1080p.
C12_BadLabelRejected ==
    \A w \in Workers :
        LET cs == calls[w]
            tr == CallsOf(cs, "transcode_to_hls")
            bundle == HlsDir(InputPath(loc[w].task_id), task[w].members.quality)
            key == SinkKey(loc[w].task_id)
        IN BadLabel(task[w]) =>
              /\ \A i \in tr : ~cs[i].spawned /\ ~cs[i].ok
              /\ \A f \in disk : f # bundle /\ f.dir # DirName(bundle)
              /\ (ppc[w] = "except" /\ tr # {}) =>
                    \A q \in {"480p", "720p", "1080p"} :
                        Mentions(ErrorData(loc[w], temp_files[w]).error, q)
              /\ (Returning(w) /\ Succeeded(cs, "generate_thumbnail") # {}) =>
                    /\ tr # {}
                    /\ loc[w].ret = "False"
                    /\ WritesOf(cs, "completed") = {}
                    /\ WritesOf(cs, "failed") # {}
                    /\ \A i \in WritesOf(cs, "failed") :
                          cs[i].ok =>
                              /\ key \in DOMAIN sink
                              /\ sink[key].status = "failed"
                              /\ \A q \in {"480p", "720p", "1080p"} :
                                    Mentions(sink[key].error, q)

\* C12 witness: a job with the label 4k got through Fetch and Thumbnail, was
\* rejected by transcode_to_hls, and its failed record is written
C12_Witness ==
    \E w \in Workers :
        /\ Returning(w)
        /\ BadLabel(task[w])
        /\ \E i \in CallsOf(calls[w], "transcode_to_hls") : ~calls[w][i].spawned
        /\ \E i \in WritesOf(calls[w], "failed") : calls[w][i].ok
        /\ sink[SinkKey(loc[w].task_id)].status = "failed"

\* C13: while a job with a quality label outside {480p, 720p, 1080p} is
\* processed, no tool process (frame extraction, transcoding, probing) is
\* spawned. (Fails: the label is looked at by transcode_to_hls only, after
\* generate_thumbnail has run ffmpeg.)
C13_NoToolForBadLabel ==
    \A w \in Workers :
        BadLabel(task[w]) => \A i \in DOMAIN calls[w] : ~calls[w][i].spawned

C14_WitnessPartial ==
    \E w \in Workers :
        /\ ppc[w] = "finally"
        /\ \E i \in CallsOf(calls[w], "analyze_video") : ~calls[w][i].ok
        /\ \E i \in WritesOf(calls[w], "failed") : calls[w][i].ok
        /\ Len(sink[SinkKey(loc[w].task_id)].attempted_files) = 4

\* the job of worker w is through its four stages and has published the
\* thumbnail and every segment and playlist file that the bundle directory
\* holds on the file system fs
AllPublished(w, fs) ==
    LET cs == calls[w]
        prefix == task[w].members.output_prefix
        video == InputPath(loc[w].task_id)
        bundle == {f \in ListDir(DirName(HlsDir(video, task[w].members.quality)), fs) :
                      f.ext \in {".ts", ".m3u8"}}
    IN /\ \A op \in {"download_file", "generate_thumbnail", "transcode_to_hls",
                      "analyze_video"} : Succeeded(cs, op) # {}
       /\ HasKey(task[w], "output_prefix")
       /\ \E i \in Succeeded(cs, "upload_file") : cs[i].arg = "_thumbnail.jpg"
       /\ ThumbnailName(prefix) \in store
       /\ \A f \in bundle :
             /\ \E i \in Succeeded(cs, "upload_file") : cs[i].arg = f.name \o f.ext
             /\ HlsObjectName(prefix, f) \in store
       /\ \E f \in bundle : f.ext = ".m3u8"

\* C15: the write of a completed record is attempted only by a job all of
\* whose earlier calls succeeded and which has published the thumbnail and
\* every segment and playlist file of its bundle directory; a job with a
\* failed stage or a failed upload attempts no completed write; and a record
\* of the status store gets the status completed only by the write step of
\* such a job, under the key of that job.
C15_CompletedOnlyAfterPublishing ==
    /\ [](\A w \in Workers :
             LET cs == calls[w]
             IN /\ (WritesOf(cs, "completed") # {} /\ ~Returning(w)) =>
                       AllPublished(w, disk)
                /\ \A i \in WritesOf(cs, "completed") :
                       \A j \in 1..(i - 1) : cs[j].ok
                /\ (\E j \in DOMAIN cs : ~cs[j].ok /\ Rank(cs[j]) <= 5) =>
                       WritesOf(cs, "completed") = {})
    /\ [][\A key \in DOMAIN sink' :
             (/\ sink'[key].status = "completed"
              /\ key \in DOMAIN sink => sink[key] # sink'[key]) =>
                 \E w \in Workers :
                     /\ ppc[w] = "write_completed"
                     /\ key = SinkKey(loc[w].task_id)
                     /\ AllPublished(w, disk)]_vars

\* C15 witness: a job has published its thumbnail, a segment and the
\* playlist, and its completed record is written
C15_Witness ==
    \E w \in Workers :
        /\ ppc[w] = "finally"
        /\ \E i \in WritesOf(calls[w], "completed") : calls[w][i].ok
        /\ Len(loc[w].hls_urls) = 2
        /\ sink[SinkKey(loc[w].task_id)].status = "completed"

\* the number of segment files among the files that the job of w published
PublishedSegments(w) ==
    Cardinality({i \in 1..Len(loc[w].hls_urls) : loc[w].hls_files[i].ext = ".ts"})

\* C16 as stated: for every completed job, whatever jobs the worker ran
\* before, hls_segments_count is the number of .ts files that the ffmpeg run
\* of this job wrote and the number of .ts files that the job published; and
\* a job is past a successful transcoding only with the master playlist on
\* disk. (Fails: transcode_to_hls counts the .ts entries of the bundle
\* directory, which an earlier job with the same id and quality can have
\* left there.)
C16_CountIsOwnSegments ==
    \A w \in Workers :
        /\ (ppc[w] = "finally" /\ loc[w].ret = "True") =>
              /\ ResultData(loc[w]).hls_segments_count = loc[w].written
              /\ ResultData(loc[w]).hls_segments_count = PublishedSegments(w)
        /\ ppc[w] = "probe" =>
              MasterPlaylist(HlsDir(loc[w].video_path, task[w].members.quality)) \in disk

\* what transcode_to_hls returns for the job of w when the temporary
\* directory holds nothing but the video of this job, for the ffmpeg run that
\* the job had (a run that exits 0, writes the playlist and loc[w].written
\* segments)
TranscodeAlone(w) ==
    TranscodeToHls(loc[w].video_path, task[w].members.quality, {loc[w].video_path},
                   [rc |-> 0, segs |-> loc[w].written, playlist |-> TRUE])

\* C17 as stated: a completed job has the record and the published objects
\* that the same job with the same tool runs has when no job was processed
\* before it: the segment count of the record and the set of published
\* bundle files are those of its own ffmpeg run on a clean directory.
\* (Fails: the bundle directory of an earlier job with the same id and
\* quality is found again, with the files that job left in it.)
C17_SameOutcomeAsOnCleanDisk ==
    \A w \in Workers :
        (ppc[w] = "finally" /\ loc[w].ret = "True") =>
            /\ ResultData(loc[w]).hls_segments_count = TranscodeAlone(w).segments_count
            /\ Range(loc[w].hls_files) =
                  HlsFilter(ListDir(loc[w].hls_dir, TranscodeAlone(w).fs))

\* the job of worker w is in flight: process_task has not yet cleaned up
InFlight(w) == ppc[w] \notin {"idle", "return", "crashed"}

\* C18 as stated: with several workers on one temporary directory, a step of
\* one worker neither deletes a file that the in-flight job of another
\* worker has staged, nor stages (writes anew) a path that the in-flight job
\* of another worker has staged. (Fails: the local names are derived from the
\* job id alone, so two jobs with the same id, or with no id, use the same
\* paths.)
C18_StagedFilesAreOwn ==
    [][\A v, w \in Fleet :
          (v # w /\ InFlight(w) /\ ppc'[v] # ppc[v]) =>
              /\ (Range(temp_files[w]) \cap disk) \subseteq disk'
              /\ (Range(temp_files'[v]) \ Range(temp_files[v]))
                     \cap Range(temp_files[w]) = {}]_vars

\* the paths whose deletion failed in the n-th cleanup call of worker w
FailedDeletions(cs, n) == cs[n].arg

\* C19: a call of cleanup_temp_files does not raise and goes through the
\* whole list: of the listed paths, those that do not exist are passed over,
\* and every one that exists is deleted, whatever its place in the list,
\* unless its own deletion fails; no other path is touched.
C19_CleanupVisitsEveryPath ==
    [][\A w \in Workers :
          Len(calls'[w]) = Len(calls[w]) + 1 =>
              LET c == calls'[w][Len(calls'[w])]
                  tracked == Range(temp_files[w])
              IN (c.op = "cleanup_temp_files") =>
                    /\ c.ok
                    /\ ~loc'[w].exc.raised
                    /\ c.arg \subseteq tracked \cap disk
                    /\ disk' = disk \ (tracked \ c.arg)]_vars

\* C19 witness: cleanup has run on a list of three paths; the deletion of
\* the first failed (the path is still there), and the cleanup went on: the
\* paths after it in the list are not on disk
C19_Witness ==
    \E w \in Workers :
        /\ Len(calls[w]) = 1
        /\ Len(temp_files[w]) = 3
        /\ temp_files[w][1] \in FailedDeletions(calls[w], 1)
        /\ temp_files[w][1] \in disk
        /\ temp_files[w][2] \notin disk
        /\ temp_files[w][2] # temp_files[w][1]
        /\ temp_files[w][3] \notin disk

\* the step is the second call of cleanup_temp_files by worker w
SecondCleanup(w) ==
    /\ Len(calls[w]) = 1
    /\ Len(calls'[w]) = 2
    /\ calls'[w][2].op = "cleanup_temp_files"

\* C20 as stated: a second call of cleanup_temp_files with the same list
\* raises nothing and leaves the file system exactly as the first call left
\* it. (Fails: a path whose deletion failed in the first call still exists
\* and is tried again, and is deleted if the deletion now succeeds.)
C20_SecondCallChangesNothing ==
    [][\A w \in Workers :
          SecondCleanup(w) => calls'[w][2].ok /\ disk' = disk]_vars

\* C20 as amended: the second call raises nothing and deletes exactly the
\* paths whose deletion failed in the first call and does not fail again;
\* it leaves the file system as the first call left it whenever no deletion
\* failed in the first call, or the same deletions fail again.
C20_SecondCallOnlyRetries ==
    [][\A w \in Workers :
          SecondCleanup(w) =>
              LET first == FailedDeletions(calls[w], 1)
                  again == FailedDeletions(calls'[w], 2)
              IN /\ calls'[w][2].ok
                 /\ ~loc'[w].exc.raised
                 /\ again \subseteq first
                 /\ disk' = disk \ (first \ again)
                 /\ (first = {} \/ again = first) => disk' = disk]_vars

\* C20 witness: two calls were made; a deletion failed in the first call,
\* and the second call has deleted that path
C20_Witness ==
    \E w \in Workers :
        /\ Len(calls[w]) = 2
        /\ FailedDeletions(calls[w], 1) # {}
        /\ FailedDeletions(calls[w], 2) = {}
        /\ Range(temp_files[w]) \cap disk = {}

\* a second C20 case: nothing failed in the first call, and the second call
\* found none of the listed paths
C20_WitnessNoOp ==
    \E w \in Workers :
        /\ Len(calls[w]) = 2
        /\ FailedDeletions(calls[w], 1) = {}
        /\ Len(temp_files[w]) = MaxTracked
        /\ disk # {}

\* C21: the flag running only ever goes from TRUE to FALSE: once FALSE it
\* stays FALSE whatever step follows (a further signal, a step of the loop, a
\* step of a job), and a step that changes it is a step of the signal handler
\* alone, which moves neither run nor process_task and touches nothing else
\* of the program's state.
C21_FlagOnlyFalls ==
    [][\A w \in Workers :
          /\ ~running[w] => ~running'[w]
          /\ running'[w] # running[w] =>
                /\ running[w] /\ ~running'[w]
                /\ <<queue, store, disk, sink, rpc, ppc, task, temp_files, loc, calls>>'
                      = <<queue, store, disk, sink, rpc, ppc, task, temp_files, loc, calls>>]_vars

\* C21 witness: the signal came during a job; the job has been processed to
\* its end and the loop has gone on to its pause, and the flag is still FALSE
C21_Witness ==
    \E w \in Workers :
        /\ ~running[w]
        /\ hist[w].sig = "job"
        /\ hist[w].done = 1
        /\ rpc[w] = "tick"

\* the calls of op made so far, by any worker
MadeCalls(op) == UNION {{calls[w][i] : i \in CallsOf(calls[w], op)} : w \in Workers}

\* C22: when the tool's output parses and lists a video track, analyze_video
\* returns metadata, and the metadata has an audio section exactly when the
\* output lists an audio track; when the tool ran and its output does not
\* parse or lists no video track, analyze_video raises.
C22_AudioSectionIffAudioTrack ==
    \A c \in MadeCalls("analyze_video") :
        c.spawned =>
            IF c.arg.out.parsed /\ "Video" \in c.arg.out.tracks
               THEN c.ok /\ (c.arg.audio <=> "Audio" \in c.arg.out.tracks)
               ELSE ~c.ok

\* C22 witness: the output parsed and lists a video track and no audio track,
\* and the metadata was returned without an audio section
C22_Witness ==
    \E c \in MadeCalls("analyze_video") :
        /\ c.ok
        /\ c.arg.out.parsed
        /\ c.arg.out.tracks = {"General", "Video"}
        /\ ~c.arg.audio

\* a second C22 case: the output parsed and lists an audio track only, and
\* analyze_video raised
C22_WitnessNoVideo ==
    \E c \in MadeCalls("analyze_video") :
        /\ c.spawned /\ ~c.ok
        /\ c.arg.out.parsed
        /\ c.arg.out.tracks = {"Audio"}

\* C23: calculate_vmaf never raises: when the reference or the encoded file
\* is missing, the tool exits non-zero, the report file is missing or the
\* report does not parse, it returns a result with an "error" field; and no
\* call of calculate_vmaf is made while process_task is at work.
C23_VmafFailureIsAResult ==
    /\ \A c \in MadeCalls("calculate_vmaf") :
          /\ ~c.arg.raised
          /\ (\/ ~c.arg.original
              \/ ~c.arg.compressed
              \/ c.arg.rc # 0
              \/ ~c.arg.report
              \/ ~c.arg.json) => c.arg.error
    /\ \A w \in Workers : ppc[w] # "idle" => CallsOf(calls[w], "calculate_vmaf") = {}

\* C23 witness: both files were there and the tool exited with 0, the report
\* it left does not parse, and the call returned a result with "error"
C23_Witness ==
    \E c \in MadeCalls("calculate_vmaf") :
        /\ c.arg.original /\ c.arg.compressed
        /\ c.arg.rc = 0 /\ c.arg.report /\ ~c.arg.json
        /\ c.arg.error /\ ~c.arg.raised

\* a second C23 case: the encoded file is missing, no tool was started, and
\* the call returned a result with "error"
C23_WitnessMissingFile ==
    \E c \in MadeCalls("calculate_vmaf") :
        /\ c.arg.original /\ ~c.arg.compressed
        /\ ~c.spawned
        /\ c.arg.error /\ ~c.arg.raised

\* the calls of calculate_vmaf: none is made by run or process_task
C23_NoVmafInPipeline == MadeCalls("calculate_vmaf") = {}

\* C24: whatever width is requested and whatever the size of the source
\* frame, the thumbnail that generate_thumbnail produces is exactly as wide
\* as requested and its height is even (and not zero).
C24_ThumbnailWidthExactHeightEven ==
    \A c \in MadeCalls("generate_thumbnail") :
        c.ok =>
            /\ c.arg.image.w = c.arg.width
            /\ c.arg.image.h % 2 = 0
            /\ c.arg.image.h > 0

\* C24 witness: an odd width was requested from a frame whose exact scaled
\* height (3 * 3 / 4) is no integer, and the thumbnail was produced
C24_Witness ==
    \E c \in MadeCalls("generate_thumbnail") :
        /\ c.ok
        /\ c.arg.width = 3
        /\ c.arg.frame = <<4, 3>>
        /\ c.arg.image = [w |-> 3, h |-> 2]

\* a second C24 case: the frame is so wide that the scaled height is 0; no
\* thumbnail is produced
C24_WitnessNoImage ==
    \E c \in MadeCalls("generate_thumbnail") :
        /\ c.spawned /\ ~c.ok
        /\ c.arg.width = 1
        /\ c.arg.frame = <<4, 1>>

\* the fields of a completed record and of a failed record
SuccessFields == DOMAIN ResultData(NoLocals)
FailureFields == DOMAIN ErrorData(NoLocals, << >>)

\* C25 as stated: whatever jobs were processed and whatever was written
\* before, the hash stored under task:{id} has exactly the fields of its
\* status: a "completed" hash has the success fields and no error,
\* error_time or attempted_files, a "failed" hash has the failure fields and
\* no success field.
\* (Fails: the write merges its fields into the hash that is already there,
\* so the fields of an earlier write with the other status stay.)
C25_RecordHasFieldsOfItsStatus ==
    \A k \in DOMAIN sink :
        /\ sink[k].status = "completed" => DOMAIN sink[k] = SuccessFields
        /\ sink[k].status = "failed" => DOMAIN sink[k] = FailureFields

\* what does hold for the stored hash: its status is that of the latest
\* write, and it has at least the fields of that status
C25_RecordHasAtLeastFieldsOfItsStatus ==
    \A k \in DOMAIN sink :
        /\ sink[k].status \in {"completed", "failed"}
        /\ sink[k].status = "completed" => SuccessFields \subseteq DOMAIN sink[k]
        /\ sink[k].status = "failed" => FailureFields \subseteq DOMAIN sink[k]

\* a completed hash that still has the error of an earlier failed job
C25_StaleErrorReached ==
    \E k \in DOMAIN sink :
        sink[k].status = "completed" /\ "error" \in DOMAIN sink[k]

\* process_task of worker w has returned True or is about to
Completed(w) == ppc[w] \in {"finally", "return"} /\ loc[w].ret = "True"

\* the URL of the uploaded object {output_prefix}_hls/master.m3u8
PlaylistObjectUrl(t) == Url(<<t.members.output_prefix, "_hls/", "master.m3u8">>)

\* C26 as stated: for every completed job, whatever its output_prefix and
\* whatever the order of the directory listing, master_playlist_url is the
\* URL of the uploaded object {output_prefix}_hls/master.m3u8.
\* (Fails: the test is made on the whole URL, which begins with the prefix.)
C26_MasterUrlIsThePlaylist ==
    \A w \in Workers :
        Completed(w) =>
            /\ MasterPlaylistUrl(loc[w].hls_urls) = PlaylistObjectUrl(task[w])
            /\ <<task[w].members.output_prefix, "_hls/", "master.m3u8">> \in store

\* what does hold: master_playlist_url is never None for a completed job, it
\* is the URL of an uploaded file of the bundle, and it is the URL of the
\* playlist when the prefix does not contain the text looked for
C26_MasterUrlIsOfTheBundle ==
    \A w \in Workers :
        Completed(w) =>
            LET url == MasterPlaylistUrl(loc[w].hls_urls)
            IN /\ url # <<"None">>
               /\ \E i \in DOMAIN loc[w].hls_urls : loc[w].hls_urls[i] = url
               /\ task[w].members.output_prefix # "master.m3u8"
                     => url = PlaylistObjectUrl(task[w])

\* a completed job whose master_playlist_url is the URL of a segment
C26_SegmentUrlReached ==
    \E w \in Workers :
        /\ Completed(w)
        /\ MasterPlaylistUrl(loc[w].hls_urls)
              = Url(<<task[w].members.output_prefix, "_hls/", "master0.ts">>)

\* C27: process_task returns True exactly when its write of the "completed"
\* record succeeded; after a failed stage, a failed upload or a failed write
\* of the completed record it returns False; and when it returns True the
\* sink holds a "completed" record under the job's key.
C27_TrueIffCompletedWritten ==
    \A w \in Workers :
        Returning(w) =>
            LET written == \E i \in Succeeded(calls[w], "update_task_status") :
                              calls[w][i].arg = "completed"
                failed == \E i \in DOMAIN calls[w] : ~calls[w][i].ok
                key == SinkKey(loc[w].task_id)
            IN /\ loc[w].ret \in {"True", "False"}
               /\ loc[w].ret = "True" <=> written
               /\ failed => loc[w].ret = "False"
               /\ loc[w].ret = "True" =>
                     key \in DOMAIN sink /\ sink[key].status = "completed"

\* C27 witness: every stage and every upload succeeded, the write of the
\* completed record failed, and process_task returns False
C27_Witness ==
    \E w \in Workers :
        /\ Returning(w)
        /\ loc[w].ret = "False"
        /\ \E i \in CallsOf(calls[w], "update_task_status") :
              calls[w][i].arg = "completed" /\ ~calls[w][i].ok

\* a second C27 case: process_task returns True
C27_WitnessTrue ==
    \E w \in Workers :
        /\ Returning(w)
        /\ loc[w].ret = "True"
        /\ sink[SinkKey(loc[w].task_id)].status = "completed"

====
